---------------------------- MODULE Spec2Model ----------------------------
(***************************************************************************)
(* Lifecycle orchestration of wirego's App: NewApp, Run, the gRPC and HTTP *)
(* server tasks, the shutdown watcher and Shutdown (src/app.go), with the  *)
(* health probes of src/README.md (the library's health.go).               *)
(*                                                                         *)
(* The library objects the code drives are modelled by their documented    *)
(* behaviour at the call sites: errgroup.Group (first error wins, the      *)
(* derived context is cancelled by the first error and by Wait),           *)
(* grpc.Server (Serve after Stop/GracefulStop returns ErrServerStopped,    *)
(* Serve returns nil once a stop has completed), http.Server               *)
(* (ListenAndServe returns ErrServerClosed once Shutdown was called),      *)
(* http.ServeMux (registering a pattern twice panics) and health.Server.   *)
(***************************************************************************)
EXTENDS Integers, Sequences, FiniteSets, TLC

\* ---------------------------------------------------------------- bounds
\* Options passed to one NewApp call.
MaxOpts == 3
\* Checks handed to one ReadinessHandler.
MaxChecks == 3
\* External (non-watcher) callers of App.Shutdown.
MaxExternal == 1
\* In-flight requests per server.
MaxInflight == 1

\* ------------------------------------------------------------- constants
DefaultGRPCPort == 9000
DefaultHTTPPort == 0
HTTPPortOn == 8000
\* shutdownTimeout of defaultOptions, in seconds.
DefaultShutdownTimeout == 10

Nil == "nil"
ErrGRPCListen == "failed to listen on gRPC port"
ErrGRPCServe == "gRPC server error: accept failed"
ErrGRPCStopped == "gRPC server error: grpc: the server has been stopped"
ErrHTTPServe == "HTTP server error"
ErrRegisterHTTP == "failed to register HTTP handlers"
ErrInvalidPort == "gRPC port must be specified and be greater than 0"

SERVING == "SERVING"
NOT_SERVING == "NOT_SERVING"

Tasks == {"grpc", "http", "watcher"}
\* Caller 0 is the shutdown watcher; 1..MaxExternal call Shutdown from outside.
Watcher == 0
\* make(chan os.Signal, 1)
SigChCap == 1
Callers == 0..MaxExternal

\* The checks a ReadinessProvider service supplies.
ServiceChecks == <<"db">>

VARIABLES
    opts,           \* the options passed to NewApp, in call order
    options,        \* the Options NewApp assembled from them
    service,        \* capabilities of the hosted service: [http, ready]
    app,            \* "none" | "created" | "failed" (NewApp's outcome)
    appErr,         \* NewApp's error
    grpcServer,     \* App.grpcServer # nil
    httpServer,     \* App.httpServer # nil
    httpHandler,    \* App.httpServer.Handler, as the trace a request leaves
    httpMux,        \* App.httpMux # nil
    mux,            \* App.mux # nil (the gateway mux)
    routes,         \* httpMux's registrations: pattern -> handler
    health,         \* healthCheck's status of ""
    parentDone,     \* the caller's context is cancelled
    groupCancel,    \* the errgroup's derived context was cancelled by the group
    gErr,           \* errgroup's recorded error
    retLog,         \* history: the <<task, error>> of every task that returned
                    \* a non-nil error, in the order they returned
    runPc,          \* position of Run
    runResult,      \* what Run returned
    startLog,       \* history: the startup steps of Run, in the order taken
    regHTTP,        \* history: outcome of RegisterHTTP, "none" | "ok" | "err"
    task,           \* task -> "notLaunched" | ... | "returned"
    notified,       \* signal.Notify was called
    sigCh,          \* signals buffered in sigCh (capacity 1)
    watcherCalls,   \* history: how often the watcher called Shutdown
    sdPc,           \* caller -> position in Shutdown
    sdElapsed,      \* caller -> the caller's shutdown deadline has elapsed
    gsPc,           \* caller -> position of the caller's GracefulStop goroutine
    gsInTime,       \* history: caller -> its GracefulStop returned while its
                    \* deadline had not elapsed
    httpInShutdown, \* http.Server: Shutdown was called
    httpConns,      \* http.Server: in-flight requests
    grpcQuit,       \* grpc.Server: Stop or GracefulStop has begun (lis = nil)
    grpcDone,       \* grpc.Server: a stop has completed
    grpcConns,      \* grpc.Server: in-flight calls
    readyzResp,     \* the last answer of a ReadinessHandler
    rpcReply        \* the last outcome of a request behind a recovery wrapper

vars == <<opts, options, service, app, appErr, grpcServer, httpServer,
          httpHandler, httpMux, mux, routes, health, parentDone, groupCancel, gErr, retLog, runPc,
          runResult, startLog, regHTTP, task, notified, sigCh, watcherCalls, sdPc,
          sdElapsed, gsPc, gsInTime, httpInShutdown, httpConns, grpcQuit, grpcDone,
          grpcConns, readyzResp, rpcReply>>

confVars == <<opts, options, service>>
probeVars == <<readyzResp, rpcReply>>
appVars == <<app, appErr, grpcServer, httpServer, httpHandler, httpMux, mux>>
grpcSrvVars == <<grpcQuit, grpcDone, grpcConns>>
httpSrvVars == <<httpInShutdown, httpConns>>
sigVars == <<notified, sigCh, watcherCalls>>
sdVars == <<sdPc, sdElapsed, gsPc, gsInTime>>
groupVars == <<groupCancel, gErr, retLog, task>>
runVars == <<runPc, runResult, startLog, regHTTP>>

\* ------------------------------------------------------------ pure parts

\* HealthHandler: the answer of GET /healthz for a status of the registry.
HealthHandler(status) ==
    IF status # SERVING
    THEN <<503, "Service Unavailable">>
    ELSE <<200, "OK">>

\* The handler values a route can hold.
HealthRoute == [kind |-> "health", checks |-> << >>]
ReadinessRoute(checks) == [kind |-> "readiness", checks |-> checks]
GatewayRoute == [kind |-> "gateway", checks |-> << >>]

NoRoutes == [p \in {} |-> HealthRoute]

\* http.ServeMux.Handle: TRUE when registering the pattern panics.
HandleConflicts(rt, pattern) == pattern \in DOMAIN rt

\* http.ServeMux.Handle on a mux without that pattern.
Handle(rt, pattern, h) ==
    [p \in DOMAIN rt \cup {pattern} |-> IF p = pattern THEN h ELSE rt[p]]

\* WithHealthEndpoints(mux, healthCheck, readinessChecks...).
WithHealthEndpoints(rt, checks) ==
    Handle(Handle(rt, "/healthz", HealthRoute), "/readyz", ReadinessRoute(checks))

\* ctx.Done() of the errgroup's derived context.
CtxDone == parentDone \/ groupCancel

\* Every task of the group has returned (what g.Wait waits for).
AllReturned == \A t \in Tasks : task[t] \in {"notLaunched", "returned"}

\* ------------------------------------------------------- request probes

\* What a ReadinessCheck returns: nil or an error with a message.
CheckOutcomes == {Nil, "db down", "cache down"}

\* Every list of at most MaxChecks check outcomes.
CheckLists == UNION {[1..n -> CheckOutcomes] : n \in 0..MaxChecks}

NoResponse == [checks |-> << >>, status |-> 0, body |-> "", evaluated |-> 0]

\* ReadinessHandler's loop from check i on: the first error is answered
\* with 503 and its message, and the handler returns.
RECURSIVE ReadinessLoop(_, _)
ReadinessLoop(checks, i) ==
    IF i > Len(checks)
    THEN [checks |-> checks, status |-> 200, body |-> "Ready",
          evaluated |-> Len(checks)]
    ELSE IF checks[i] # Nil
         THEN [checks |-> checks, status |-> 503, body |-> checks[i],
               evaluated |-> i]
         ELSE ReadinessLoop(checks, i + 1)

\* The loop remembering the last failure instead of returning at the first.
RECURSIVE ReadinessLoopAll(_, _, _)
ReadinessLoopAll(checks, i, failed) ==
    IF i > Len(checks)
    THEN IF failed = Nil
         THEN [checks |-> checks, status |-> 200, body |-> "Ready",
               evaluated |-> Len(checks)]
         ELSE [checks |-> checks, status |-> 503, body |-> failed,
               evaluated |-> Len(checks)]
    ELSE ReadinessLoopAll(checks, i + 1,
                          IF checks[i] # Nil THEN checks[i] ELSE failed)

\* ReadinessHandler without the return in the failure branch.
ReadinessHandler_NoReturn(checks) == ReadinessLoopAll(checks, 1, Nil)

\* ReadinessHandler(checks...) serving one request; checks[i] is what the
\* i-th check returns.
ReadinessHandler(checks) == ReadinessLoop(checks, 1)

\* What a request handler does: return normally, return an error (an error
\* status of its own on HTTP), or panic.  On gRPC the status is sent when
\* the interceptor chain has returned, whatever the handler did before.
Transports == {"unary", "stream", "http"}
HandlerOutcomes == {"ok", "error", "panic"}

\* An HTTP handler (next.ServeHTTP, line 51) can also panic after it has
\* started the response with w.WriteHeader or w.Write.
HTTPOutcomes == HandlerOutcomes \cup {"panicAfterWrite"}

NoReply == [transport |-> "none", outcome |-> "none", escaped |-> FALSE,
            result |-> "none"]

\* RecoveryUnaryInterceptor: the deferred recover assigns the named result
\* err the Internal status.
RecoveryUnaryInterceptor(outcome) ==
    [transport |-> "unary", outcome |-> outcome, escaped |-> FALSE,
     result |-> CASE outcome = "ok" -> "OK"
                  [] outcome = "error" -> "HandlerError"
                  [] outcome = "panic" -> "Internal"]

\* RecoveryStreamInterceptor: the deferred recover builds the Internal
\* status and discards it (_ = status.Error(...)); the result is unnamed,
\* so after a panic the interceptor returns the zero value, a nil error.
RecoveryStreamInterceptor(outcome) ==
    [transport |-> "stream", outcome |-> outcome, escaped |-> FALSE,
     result |-> CASE outcome = "ok" -> "OK"
                  [] outcome = "error" -> "HandlerError"
                  [] outcome = "panic" -> "OK"]

\* RecoveryMiddleware: the deferred recover calls http.Error with 500
\* (line 48).  When the handler has started the response before it
\* panicked the status line is already sent: the WriteHeader of http.Error
\* is ignored and the caller keeps the status the handler wrote.
RecoveryMiddleware(outcome) ==
    [transport |-> "http", outcome |-> outcome, escaped |-> FALSE,
     result |-> CASE outcome = "ok" -> "200"
                  [] outcome = "error" -> "HandlerStatus"
                  [] outcome = "panic" -> "500"
                  [] outcome = "panicAfterWrite" -> "HandlerStatus"]

\* --------------------------------------------------------------- options

\* defaultOptions().
defaultOptions ==
    [grpcPort |-> DefaultGRPCPort,
     httpPort |-> DefaultHTTPPort,
     enableReflection |-> TRUE,
     shutdownTimeout |-> DefaultShutdownTimeout,
     unaryInterceptors |-> << >>,
     streamInterceptors |-> << >>,
     muxOptions |-> << >>,
     httpMiddleware |-> << >>,
     logger |-> "default"]

\* WithUnaryInterceptors assigning the supplied list instead of appending.
WithUnaryInterceptors_Assign(o, interceptors) ==
    [o EXCEPT !.unaryInterceptors = interceptors]

\* What each Option does to the Options it is applied to.
WithGRPCPort(o, port) == [o EXCEPT !.grpcPort = port]
WithHTTPPort(o, port) == [o EXCEPT !.httpPort = port]
WithReflection(o, enable) == [o EXCEPT !.enableReflection = enable]
WithShutdownTimeout(o, timeout) == [o EXCEPT !.shutdownTimeout = timeout]
WithUnaryInterceptors(o, interceptors) ==
    [o EXCEPT !.unaryInterceptors = @ \o interceptors]
WithStreamInterceptors(o, interceptors) ==
    [o EXCEPT !.streamInterceptors = @ \o interceptors]
WithMuxOptions(o, muxOpts) == [o EXCEPT !.muxOptions = @ \o muxOpts]
WithHTTPMiddleware(o, middleware) ==
    [o EXCEPT !.httpMiddleware = @ \o middleware]
WithLogger(o, logger) == [o EXCEPT !.logger = logger]

\* An Option value is <<constructor, argument>>; opt(options) applies it.
ApplyOption(o, opt) ==
    CASE opt[1] = "WithGRPCPort" -> WithGRPCPort(o, opt[2])
      [] opt[1] = "WithHTTPPort" -> WithHTTPPort(o, opt[2])
      [] opt[1] = "WithReflection" -> WithReflection(o, opt[2])
      [] opt[1] = "WithShutdownTimeout" -> WithShutdownTimeout(o, opt[2])
      [] opt[1] = "WithUnaryInterceptors" -> WithUnaryInterceptors(o, opt[2])
      [] opt[1] = "WithStreamInterceptors" -> WithStreamInterceptors(o, opt[2])
      [] opt[1] = "WithMuxOptions" -> WithMuxOptions(o, opt[2])
      [] opt[1] = "WithHTTPMiddleware" -> WithHTTPMiddleware(o, opt[2])
      [] opt[1] = "WithLogger" -> WithLogger(o, opt[2])

\* NewApp, lines 52-56: for _, opt := range opts { opt(options) }.
RECURSIVE ApplyOptions(_, _)
ApplyOptions(o, os) ==
    IF os = << >> THEN o ELSE ApplyOptions(ApplyOption(o, Head(os)), Tail(os))

\* The Option values a caller passes.
OptionValues ==
    ({"WithGRPCPort"} \X {-1, 0, 9001})
    \cup ({"WithHTTPPort"} \X {-1, 0, HTTPPortOn})
    \cup ({"WithReflection"} \X BOOLEAN)
    \cup ({"WithShutdownTimeout"} \X {5, 30})
    \cup ({"WithUnaryInterceptors"} \X {<<"u1">>, <<"u2", "u3">>})
    \cup ({"WithStreamInterceptors"} \X {<<"s1">>, <<"s2", "s3">>})
    \cup ({"WithMuxOptions"} \X {<<"o1">>, <<"o2", "o3">>})
    \cup ({"WithHTTPMiddleware"} \X {<<"A">>, <<"B", "C">>})
    \cup ({"WithLogger"} \X {"l1", "l2"})

\* Every option list of at most MaxOpts options.
OptionLists == UNION {[1..n -> OptionValues] : n \in 0..MaxOpts}

\* The option lists of the lifecycle runs: the defaults, HTTP enabled, and
\* an invalid gRPC port.
LifecycleOptionLists ==
    {<< >>,
     <<<<"WithHTTPPort", HTTPPortOn>>>>,
     <<<<"WithGRPCPort", 0>>>>,
     <<<<"WithGRPCPort", 0>>, <<"WithHTTPPort", HTTPPortOn>>>>}

\* ------------------------------------------------------------ middleware

\* The handler NewApp wraps: httpMux serving the request.
MuxHandler == <<<<"serve", "httpMux">>>>

\* A middleware m around the handler next: m's logic before next.ServeHTTP,
\* next, then m's logic after it.
Middleware(m, next) == <<<<"before", m>>>> \o next \o <<<<"after", m>>>>

\* The loop of wrapHTTPHandler with index i (1-based): h = httpMiddleware[i](h).
RECURSIVE WrapLoop(_, _, _)
WrapLoop(mws, i, h) ==
    IF i < 1 THEN h ELSE WrapLoop(mws, i - 1, Middleware(mws[i], h))

\* The loop running from the first middleware to the last.
RECURSIVE WrapLoopUp(_, _, _)
WrapLoopUp(mws, i, h) ==
    IF i > Len(mws) THEN h ELSE WrapLoopUp(mws, i + 1, Middleware(mws[i], h))

\* wrapHTTPHandler iterating forwards.
wrapHTTPHandler_Forward(o, handler) == WrapLoopUp(o.httpMiddleware, 1, handler)

\* Options.wrapHTTPHandler: i runs from len-1 down to 0.
wrapHTTPHandler(o, handler) ==
    WrapLoop(o.httpMiddleware, Len(o.httpMiddleware), handler)

\* ------------------------------------------------------------------ Init

\* The state before NewApp, for a set of option lists the caller may pass.
Start(optionLists) ==
    /\ opts \in optionLists
    /\ options = defaultOptions
    /\ service \in [http : BOOLEAN, ready : BOOLEAN]
    /\ app = "none"
    /\ appErr = Nil
    /\ grpcServer = FALSE
    /\ httpServer = FALSE
    /\ httpHandler = << >>
    /\ httpMux = FALSE
    /\ mux = FALSE
    /\ routes = NoRoutes
    /\ health = SERVING
    /\ parentDone \in BOOLEAN
    /\ groupCancel = FALSE
    /\ gErr = Nil
    /\ retLog = << >>
    /\ runPc = "idle"
    /\ runResult = Nil
    /\ startLog = << >>
    /\ regHTTP = "none"
    /\ task = [t \in Tasks |-> "notLaunched"]
    /\ notified = FALSE
    /\ sigCh = 0
    /\ watcherCalls = 0
    /\ sdPc = [c \in Callers |-> "idle"]
    /\ sdElapsed = [c \in Callers |-> FALSE]
    /\ gsPc = [c \in Callers |-> "none"]
    /\ gsInTime = [c \in Callers |-> FALSE]
    /\ httpInShutdown = FALSE
    /\ httpConns = 0
    /\ grpcQuit = FALSE
    /\ grpcDone = FALSE
    /\ grpcConns = 0
    /\ readyzResp = NoResponse
    /\ rpcReply = NoReply

\* ---------------------------------------------------------------- NewApp

\* NewApp rejecting only negative gRPC ports.
InvalidGRPCPort_Negative(o) == o.grpcPort < 0

\* NewApp, line 58: the gRPC port is rejected.
InvalidGRPCPort(o) == o.grpcPort <= 0

\* NewApp creating the HTTP server for every nonzero port.
HTTPConfigured_Nonzero(o) == o.httpPort # 0

\* NewApp, line 82: the HTTP server is created.
HTTPConfigured(o) == o.httpPort > 0

\* Run looks at what the service provides besides RegisterGRPC only when
\* NewApp built an HTTP server (lines 125 and 132): without one a single
\* service stands for all.
Init ==
    /\ Start(LifecycleOptionLists)
    /\ \/ HTTPConfigured(ApplyOptions(defaultOptions, opts))
       \/ service = [http |-> FALSE, ready |-> FALSE]

NewApp ==
    /\ app = "none"
    /\ options' = ApplyOptions(defaultOptions, opts)
    /\ IF InvalidGRPCPort(options')
       THEN /\ app' = "failed"
            /\ appErr' = ErrInvalidPort
            /\ UNCHANGED <<grpcServer, httpServer, httpHandler, httpMux, mux,
                           routes>>
       ELSE /\ app' = "created"
            /\ appErr' = Nil
            /\ grpcServer' = TRUE
            /\ IF HTTPConfigured(options')
               THEN /\ mux' = TRUE
                    /\ httpMux' = TRUE
                    /\ routes' = Handle(WithHealthEndpoints(NoRoutes, << >>),
                                        "/", GatewayRoute)
                    /\ httpServer' = TRUE
                    /\ httpHandler' = wrapHTTPHandler(options', MuxHandler)
               ELSE UNCHANGED <<httpServer, httpHandler, httpMux, mux, routes>>
    /\ UNCHANGED <<opts, service, probeVars, health, parentDone, groupVars,
                   runVars, sigVars, sdVars, httpSrvVars, grpcSrvVars>>

\* -------------------------------------------------------- probe actions

\* One request served by a ReadinessHandler over the given checks.
ReadyzRequest(checks) ==
    /\ readyzResp' = ReadinessHandler(checks)
    /\ UNCHANGED <<confVars, rpcReply, appVars, routes, health, parentDone,
                   groupVars, runVars, sigVars, sdVars, httpSrvVars,
                   grpcSrvVars>>

\* One request whose handler runs behind the transport's recovery wrapper.
ServeRequest(transport, outcome) ==
    /\ rpcReply' = CASE transport = "unary" -> RecoveryUnaryInterceptor(outcome)
                     [] transport = "stream" -> RecoveryStreamInterceptor(outcome)
                     [] transport = "http" -> RecoveryMiddleware(outcome)
    /\ UNCHANGED <<confVars, readyzResp, appVars, routes, health, parentDone,
                   groupVars, runVars, sigVars, sdVars, httpSrvVars,
                   grpcSrvVars>>

\* ------------------------------------------------------------ errgroup

\* A group that keeps the last error instead of the first.
GroupRecord_Last(old, err) == err

\* A function passed to g.Go returns err: the task is done, the first
\* non-nil error is kept and cancels the derived context.
GroupRecord(old, err) == IF old = Nil THEN err ELSE old

TaskReturn(t, err) ==
    /\ task' = [task EXCEPT ![t] = "returned"]
    /\ retLog' = IF err # Nil THEN Append(retLog, <<t, err>>) ELSE retLog
    /\ gErr' = IF err # Nil THEN GroupRecord(gErr, err) ELSE gErr
    /\ groupCancel' = (groupCancel \/ err # Nil)

\* ------------------------------------------------------------------- Run

\* Run, lines 114-118: mark the registry serving, create the errgroup.
RunBegin ==
    /\ app = "created"
    /\ runPc = "idle"
    /\ health' = SERVING
    /\ startLog' = Append(startLog, "SetServingStatus")
    /\ runPc' = "startGRPC"
    /\ UNCHANGED <<confVars, probeVars, appVars, routes, parentDone, groupVars, runResult,
                   regHTTP, sigVars, sdVars, httpSrvVars, grpcSrvVars>>

\* startGRPCServer launching the gRPC task before it registers the service.
StartGRPCServer_LaunchFirst ==
    /\ runPc = "startGRPC"
    /\ startLog' = startLog \o <<"go grpc", "RegisterGRPC">>
    /\ task' = [task EXCEPT !["grpc"] = "launched"]
    /\ runPc' = "readiness"
    /\ UNCHANGED <<confVars, probeVars, appVars, routes, health, parentDone, groupCancel,
                   gErr, retLog, runResult, regHTTP, sigVars, sdVars,
                   httpSrvVars, grpcSrvVars>>

\* startGRPCServer: RegisterGRPC, then g.Go of the gRPC task.
StartGRPCServer ==
    /\ runPc = "startGRPC"
    /\ startLog' = startLog \o <<"RegisterGRPC", "go grpc">>
    /\ task' = [task EXCEPT !["grpc"] = "launched"]
    /\ runPc' = "readiness"
    /\ UNCHANGED <<confVars, probeVars, appVars, routes, health, parentDone, groupCancel,
                   gErr, retLog, runResult, regHTTP, sigVars, sdVars,
                   httpSrvVars, grpcSrvVars>>

\* Run, lines 123-129: register the service's readiness checks on /readyz.
RunRegisterReadiness ==
    /\ runPc = "readiness"
    /\ IF httpMux /\ httpServer /\ service.ready
       THEN IF HandleConflicts(routes, "/readyz")
            THEN /\ runPc' = "panicked"
                 /\ UNCHANGED routes
            ELSE /\ routes' = Handle(routes, "/readyz",
                                     ReadinessRoute(ServiceChecks))
                 /\ runPc' = "startHTTP"
       ELSE /\ runPc' = "startHTTP"
            /\ UNCHANGED routes
    /\ UNCHANGED <<confVars, probeVars, appVars, health, parentDone, groupVars, runResult,
                   startLog, regHTTP, sigVars, sdVars, httpSrvVars, grpcSrvVars>>

\* startHTTPServer launching the HTTP task before it looks at RegisterHTTP's
\* error.
StartHTTPServer_LaunchFirst(ok) ==
    /\ task' = [task EXCEPT !["http"] = "launched"]
    /\ IF ok
       THEN /\ regHTTP' = "ok"
            /\ startLog' = startLog \o <<"go http", "RegisterHTTP">>
            /\ runPc' = "watcher"
            /\ UNCHANGED runResult
       ELSE /\ regHTTP' = "err"
            /\ startLog' = startLog \o <<"go http", "RegisterHTTP failed">>
            /\ runPc' = "returned"
            /\ runResult' = ErrRegisterHTTP

\* startHTTPServer: RegisterHTTP; on error return it, else g.Go of the
\* HTTP task.  ok is RegisterHTTP's outcome.
StartHTTPServer(ok) ==
    IF ok
    THEN /\ regHTTP' = "ok"
         /\ startLog' = startLog \o <<"RegisterHTTP", "go http">>
         /\ task' = [task EXCEPT !["http"] = "launched"]
         /\ runPc' = "watcher"
         /\ UNCHANGED runResult
    ELSE /\ regHTTP' = "err"
         /\ startLog' = Append(startLog, "RegisterHTTP failed")
         /\ runPc' = "returned"
         /\ runResult' = ErrRegisterHTTP
         /\ UNCHANGED task

\* Run, lines 131-148: start the HTTP server if it was initialized.
RunStartHTTP ==
    /\ runPc = "startHTTP"
    /\ IF httpServer /\ mux
       THEN IF service.http
            THEN \E ok \in BOOLEAN : StartHTTPServer(ok)
            ELSE /\ task' = [task EXCEPT !["http"] = "launched"]
                 /\ startLog' = Append(startLog, "go http")
                 /\ runPc' = "watcher"
                 /\ UNCHANGED <<runResult, regHTTP>>
       ELSE /\ runPc' = "watcher"
            /\ UNCHANGED <<task, runResult, startLog, regHTTP>>
    /\ UNCHANGED <<confVars, probeVars, appVars, routes, health, parentDone, groupCancel,
                   gErr, retLog, sigVars, sdVars, httpSrvVars, grpcSrvVars>>

\* handleGracefulShutdown: g.Go of the watcher.
HandleGracefulShutdown ==
    /\ runPc = "watcher"
    /\ task' = [task EXCEPT !["watcher"] = "launched"]
    /\ startLog' = Append(startLog, "go watcher")
    /\ runPc' = "wait"
    /\ UNCHANGED <<confVars, probeVars, appVars, routes, health, parentDone, groupCancel,
                   gErr, retLog, runResult, regHTTP, sigVars, sdVars,
                   httpSrvVars, grpcSrvVars>>

\* Run, line 153: g.Wait returns once every task returned; it cancels the
\* derived context and yields the group's error.
RunWait ==
    /\ runPc = "wait"
    /\ AllReturned
    /\ runResult' = gErr
    /\ groupCancel' = TRUE
    /\ runPc' = "returned"
    /\ UNCHANGED <<confVars, probeVars, appVars, routes, health, parentDone, gErr, retLog,
                   task, startLog, regHTTP, sigVars, sdVars, httpSrvVars, grpcSrvVars>>

\* ------------------------------------------------------------- gRPC task

\* net.Listen on the gRPC port.
GrpcListen ==
    /\ task["grpc"] = "launched"
    /\ \E ok \in BOOLEAN :
          IF ok
          THEN /\ task' = [task EXCEPT !["grpc"] = "listened"]
               /\ UNCHANGED <<groupCancel, gErr, retLog>>
          ELSE TaskReturn("grpc", ErrGRPCListen)
    /\ UNCHANGED <<confVars, probeVars, appVars, routes, health, parentDone, runVars,
                   sigVars, sdVars, httpSrvVars, grpcSrvVars>>

\* grpcServer.Serve entered: after a stop it returns ErrServerStopped.
GrpcServe ==
    /\ task["grpc"] = "listened"
    /\ IF grpcQuit
       THEN TaskReturn("grpc", ErrGRPCStopped)
       ELSE /\ task' = [task EXCEPT !["grpc"] = "serving"]
            /\ UNCHANGED <<groupCancel, gErr, retLog>>
    /\ UNCHANGED <<confVars, probeVars, appVars, routes, health, parentDone, runVars,
                   sigVars, sdVars, httpSrvVars, grpcSrvVars>>

\* The accept loop ends on its own with a fatal Accept error.
GrpcAcceptFail ==
    /\ task["grpc"] = "serving"
    /\ ~grpcQuit
    /\ TaskReturn("grpc", ErrGRPCServe)
    /\ UNCHANGED <<confVars, probeVars, appVars, routes, health, parentDone, runVars,
                   sigVars, sdVars, httpSrvVars, grpcSrvVars>>

\* The accept loop ends because a stop closed the listener.
GrpcServeQuit ==
    /\ task["grpc"] = "serving"
    /\ grpcQuit
    /\ task' = [task EXCEPT !["grpc"] = "waitDone"]
    /\ UNCHANGED <<confVars, probeVars, appVars, routes, health, parentDone, groupCancel,
                   gErr, retLog, runVars, sigVars, sdVars, httpSrvVars,
                   grpcSrvVars>>

\* Serve returns nil once the stop has completed.
GrpcServeReturn ==
    /\ task["grpc"] = "waitDone"
    /\ grpcDone
    /\ TaskReturn("grpc", Nil)
    /\ UNCHANGED <<confVars, probeVars, appVars, routes, health, parentDone, runVars,
                   sigVars, sdVars, httpSrvVars, grpcSrvVars>>

\* ------------------------------------------------------------- HTTP task

\* httpServer.ListenAndServe entered: ErrServerClosed (a clean stop) after
\* Shutdown, else the bind succeeds or fails.
HttpListenAndServe ==
    /\ task["http"] = "launched"
    /\ IF httpInShutdown
       THEN TaskReturn("http", Nil)
       ELSE \E ok \in BOOLEAN :
               IF ok
               THEN /\ task' = [task EXCEPT !["http"] = "serving"]
                    /\ UNCHANGED <<groupCancel, gErr, retLog>>
               ELSE TaskReturn("http", ErrHTTPServe)
    /\ UNCHANGED <<confVars, probeVars, appVars, routes, health, parentDone, runVars,
                   sigVars, sdVars, httpSrvVars, grpcSrvVars>>

\* The accept loop ends on its own with an error other than ErrServerClosed.
HttpAcceptFail ==
    /\ task["http"] = "serving"
    /\ ~httpInShutdown
    /\ TaskReturn("http", ErrHTTPServe)
    /\ UNCHANGED <<confVars, probeVars, appVars, routes, health, parentDone, runVars,
                   sigVars, sdVars, httpSrvVars, grpcSrvVars>>

\* ListenAndServe returns ErrServerClosed: the task returns nil.
HttpServeClosed ==
    /\ task["http"] = "serving"
    /\ httpInShutdown
    /\ TaskReturn("http", Nil)
    /\ UNCHANGED <<confVars, probeVars, appVars, routes, health, parentDone, runVars,
                   sigVars, sdVars, httpSrvVars, grpcSrvVars>>

\* -------------------------------------------------------------- Shutdown

\* Shutdown, lines 216-221: mark the registry not serving, start the
\* shutdown deadline.
SdSetNotServing(c) ==
    /\ sdPc[c] = "call"
    /\ health' = NOT_SERVING
    /\ sdPc' = [sdPc EXCEPT ![c] = "http"]
    /\ UNCHANGED <<confVars, probeVars, appVars, routes, parentDone, groupVars, runVars,
                   sigVars, sdElapsed, gsPc, gsInTime, httpSrvVars, grpcSrvVars>>

\* Shutdown, lines 231-233: the channel stopped is made and the go
\* statement executed.  It only makes the goroutine runnable and touches
\* nothing another goroutine reads, so it is taken together with the
\* caller's step before it; the caller is then at its select (line 239).
SdSpawnGracefulStop(c) ==
    /\ gsPc' = [gsPc EXCEPT ![c] = "spawned"]
    /\ gsInTime' = [gsInTime EXCEPT ![c] = FALSE]
    /\ sdPc' = [sdPc EXCEPT ![c] = "select"]

\* Shutdown, lines 223-225: httpServer.Shutdown(ctx) is called (the server
\* stops accepting) when there is an HTTP server; without one Shutdown
\* goes on to the gRPC server.
SdHTTPShutdown(c) ==
    /\ sdPc[c] = "http"
    /\ IF httpServer
       THEN /\ httpInShutdown' = TRUE
            /\ sdPc' = [sdPc EXCEPT ![c] = "httpDrain"]
            /\ UNCHANGED <<gsPc, gsInTime>>
       ELSE /\ SdSpawnGracefulStop(c)
            /\ UNCHANGED httpInShutdown
    /\ UNCHANGED <<confVars, probeVars, appVars, routes, health, parentDone, groupVars,
                   runVars, sigVars, sdElapsed, httpConns, grpcSrvVars>>

\* httpServer.Shutdown returning at once, without waiting for the drain.
SdHTTPShutdownReturn_NoWait(c) ==
    /\ sdPc[c] = "httpDrain"
    /\ SdSpawnGracefulStop(c)
    /\ UNCHANGED <<confVars, probeVars, appVars, routes, health, parentDone, groupVars,
                   runVars, sigVars, sdElapsed, httpSrvVars, grpcSrvVars>>

\* httpServer.Shutdown returns: nil once no request is in flight, or the
\* context's error once the deadline has elapsed (logged, line 226).
\* Shutdown goes on to the gRPC server.
SdHTTPShutdownReturn(c) ==
    /\ sdPc[c] = "httpDrain"
    /\ httpConns = 0 \/ sdElapsed[c]
    /\ SdSpawnGracefulStop(c)
    /\ UNCHANGED <<confVars, probeVars, appVars, routes, health, parentDone, groupVars,
                   runVars, sigVars, sdElapsed, httpSrvVars, grpcSrvVars>>

\* The goroutine of line 233 is scheduled and calls
\* grpcServer.GracefulStop (line 234): the listener is closed, the drain
\* begins.  The caller may by then be anywhere from its select onwards.
GracefulStopBegin(c) ==
    /\ gsPc[c] = "spawned"
    /\ grpcQuit' = TRUE
    /\ gsPc' = [gsPc EXCEPT ![c] = "draining"]
    /\ UNCHANGED <<confVars, probeVars, appVars, routes, health, parentDone, groupVars,
                   runVars, sigVars, sdPc, sdElapsed, gsInTime, httpSrvVars,
                   grpcDone, grpcConns>>

\* GracefulStop returns once the accept loop has ended and no call is in
\* flight; the goroutine closes stopped (line 235).
GracefulStopReturn(c) ==
    /\ gsPc[c] = "draining"
    /\ task["grpc"] # "serving"
    /\ grpcConns = 0
    /\ grpcDone' = TRUE
    /\ gsPc' = [gsPc EXCEPT ![c] = "done"]
    /\ gsInTime' = [gsInTime EXCEPT ![c] = sdPc[c] = "select" /\ ~sdElapsed[c]]
    /\ UNCHANGED <<confVars, probeVars, appVars, routes, health, parentDone, groupVars,
                   runVars, sigVars, sdPc, sdElapsed, httpSrvVars,
                   grpcQuit, grpcConns>>

\* Shutdown, lines 243-244: stopped was closed, Shutdown returns (the
\* deferred cancel releases the deadline timer).
SdStoppedGracefully(c) ==
    /\ sdPc[c] = "select"
    /\ gsPc[c] = "done"
    /\ sdPc' = [sdPc EXCEPT ![c] = "returned"]
    /\ sdElapsed' = [sdElapsed EXCEPT ![c] = FALSE]
    /\ gsInTime' = [gsInTime EXCEPT ![c] = FALSE]
    /\ UNCHANGED <<confVars, probeVars, appVars, routes, health, parentDone, groupVars,
                   runVars, sigVars, gsPc, httpSrvVars, grpcSrvVars>>

\* Shutdown calling Stop without looking at the deadline.
SdForceStop_NoDeadline(c) ==
    /\ sdPc[c] = "select"
    /\ grpcQuit' = TRUE
    /\ sdPc' = [sdPc EXCEPT ![c] = "stopping"]
    /\ UNCHANGED <<confVars, probeVars, appVars, routes, health, parentDone, groupVars,
                   runVars, sigVars, sdElapsed, gsPc, gsInTime, httpSrvVars, grpcDone,
                   grpcConns>>

\* Shutdown's select without the ctx.Done() case.
SdForceStop_Never(c) ==
    /\ FALSE
    /\ UNCHANGED vars

\* Shutdown, lines 240-242: the deadline has elapsed, grpcServer.Stop is
\* called.
SdForceStop(c) ==
    /\ sdPc[c] = "select"
    /\ sdElapsed[c]
    /\ grpcQuit' = TRUE
    /\ sdPc' = [sdPc EXCEPT ![c] = "stopping"]
    /\ UNCHANGED <<confVars, probeVars, appVars, routes, health, parentDone, groupVars,
                   runVars, sigVars, sdElapsed, gsPc, gsInTime, httpSrvVars, grpcDone,
                   grpcConns>>

\* Stop returns once the accept loop has ended: every connection is
\* closed; Shutdown returns.
SdStopReturn(c) ==
    /\ sdPc[c] = "stopping"
    /\ task["grpc"] # "serving"
    /\ grpcConns' = 0
    /\ grpcDone' = TRUE
    /\ sdPc' = [sdPc EXCEPT ![c] = "returned"]
    /\ sdElapsed' = [sdElapsed EXCEPT ![c] = FALSE]
    /\ gsInTime' = [gsInTime EXCEPT ![c] = FALSE]
    /\ UNCHANGED <<confVars, probeVars, appVars, routes, health, parentDone, groupVars,
                   runVars, sigVars, gsPc, httpSrvVars, grpcQuit>>

\* The shutdown deadline of caller c's Shutdown elapses.  The context of
\* line 220 is read at two places only, inside httpServer.Shutdown(ctx) and
\* in the select of line 239, so the expiry is taken where Shutdown waits
\* on it: an expiry between those points is the expiry at the next one.
DeadlineElapse(c) ==
    /\ sdPc[c] \in {"httpDrain", "select"}
    /\ ~sdElapsed[c]
    /\ sdElapsed' = [sdElapsed EXCEPT ![c] = TRUE]
    /\ UNCHANGED <<confVars, probeVars, appVars, routes, health, parentDone, groupVars,
                   runVars, sigVars, sdPc, gsPc, gsInTime, httpSrvVars,
                   grpcSrvVars>>

\* Shutdown, as run by caller c.
Shutdown(c) ==
    \/ SdSetNotServing(c)
    \/ SdHTTPShutdown(c)
    \/ SdHTTPShutdownReturn(c)
    \/ GracefulStopBegin(c)
    \/ GracefulStopReturn(c)
    \/ SdStoppedGracefully(c)
    \/ SdForceStop(c)
    \/ SdStopReturn(c)

\* A caller other than the watcher calls Shutdown (exported, line 215) on
\* the App NewApp returned: before Run, while Run runs or after it.  The
\* call begins with the statements of lines 216-221, as SdSetNotServing.
ExternalShutdown(c) ==
    /\ c # Watcher
    /\ c = 1 \/ sdPc[c - 1] # "idle"
    /\ app = "created"
    /\ sdPc[c] = "idle"
    /\ health' = NOT_SERVING
    /\ sdPc' = [sdPc EXCEPT ![c] = "http"]
    /\ UNCHANGED <<confVars, probeVars, appVars, routes, parentDone, groupVars,
                   runVars, sigVars, sdElapsed, gsPc, gsInTime, httpSrvVars,
                   grpcSrvVars>>

\* --------------------------------------------------------------- watcher

\* handleGracefulShutdown, lines 199-200: signal.Notify.
WatcherNotify ==
    /\ task["watcher"] = "launched"
    /\ notified' = TRUE
    /\ task' = [task EXCEPT !["watcher"] = "select"]
    /\ UNCHANGED <<confVars, probeVars, appVars, routes, health, parentDone, groupCancel,
                   gErr, retLog, runVars, sigCh, watcherCalls, sdVars,
                   httpSrvVars, grpcSrvVars>>

\* The select's first case: a signal is received; Shutdown is called.
WatcherSignal ==
    /\ task["watcher"] = "select"
    /\ sigCh > 0
    /\ sigCh' = sigCh - 1
    /\ watcherCalls' = watcherCalls + 1
    /\ task' = [task EXCEPT !["watcher"] = "shutdown"]
    /\ sdPc' = [sdPc EXCEPT ![Watcher] = "call"]
    /\ UNCHANGED <<confVars, probeVars, appVars, routes, health, parentDone, groupCancel,
                   gErr, retLog, runVars, notified, sdElapsed, gsPc, gsInTime,
                   httpSrvVars, grpcSrvVars>>

\* The select's second case: the context is done; Shutdown is called.
WatcherCtxDone ==
    /\ task["watcher"] = "select"
    /\ CtxDone
    /\ watcherCalls' = watcherCalls + 1
    /\ task' = [task EXCEPT !["watcher"] = "shutdown"]
    /\ sdPc' = [sdPc EXCEPT ![Watcher] = "call"]
    /\ UNCHANGED <<confVars, probeVars, appVars, routes, health, parentDone, groupCancel,
                   gErr, retLog, runVars, notified, sigCh, sdElapsed,
                   gsPc, gsInTime, httpSrvVars, grpcSrvVars>>

\* A watcher that waits for the next trigger after Shutdown returned.
WatcherReturn_Loop ==
    /\ task["watcher"] = "shutdown"
    /\ sdPc[Watcher] = "returned"
    /\ task' = [task EXCEPT !["watcher"] = "select"]
    /\ UNCHANGED <<confVars, probeVars, appVars, routes, health, parentDone, groupCancel,
                   gErr, retLog, runVars, sigVars, sdVars, httpSrvVars,
                   grpcSrvVars>>

\* Shutdown has returned: the watcher returns nil.
WatcherReturn ==
    /\ task["watcher"] = "shutdown"
    /\ sdPc[Watcher] = "returned"
    /\ TaskReturn("watcher", Nil)
    /\ UNCHANGED <<confVars, probeVars, appVars, routes, health, parentDone, runVars,
                   sigVars, sdVars, httpSrvVars, grpcSrvVars>>

\* ----------------------------------------------------------- environment

\* SIGINT or SIGTERM arrives after signal.Notify: it is buffered in sigCh
\* (a signal that finds the channel full is dropped and changes nothing).
OSSignal ==
    /\ notified
    /\ sigCh < SigChCap
    /\ sigCh' = sigCh + 1
    /\ UNCHANGED <<confVars, probeVars, appVars, routes, health, parentDone, groupVars,
                   runVars, notified, watcherCalls, sdVars, httpSrvVars,
                   grpcSrvVars>>

\* The caller cancels the context it passed to Run.
CancelParent ==
    /\ app = "created"
    /\ ~parentDone
    /\ parentDone' = TRUE
    /\ UNCHANGED <<confVars, probeVars, appVars, routes, health, groupVars, runVars,
                   sigVars, sdVars, httpSrvVars, grpcSrvVars>>

\* A gRPC call arrives / finishes.
GrpcCallBegin ==
    /\ task["grpc"] = "serving"
    /\ ~grpcQuit
    /\ grpcConns < MaxInflight
    /\ grpcConns' = grpcConns + 1
    /\ UNCHANGED <<confVars, probeVars, appVars, routes, health, parentDone, groupVars,
                   runVars, sigVars, sdVars, httpSrvVars, grpcQuit, grpcDone>>

GrpcCallEnd ==
    /\ grpcConns > 0
    /\ grpcConns' = grpcConns - 1
    /\ UNCHANGED <<confVars, probeVars, appVars, routes, health, parentDone, groupVars,
                   runVars, sigVars, sdVars, httpSrvVars, grpcQuit, grpcDone>>

\* An HTTP request arrives / finishes.
HttpRequestBegin ==
    /\ task["http"] = "serving"
    /\ ~httpInShutdown
    /\ httpConns < MaxInflight
    /\ httpConns' = httpConns + 1
    /\ UNCHANGED <<confVars, probeVars, appVars, routes, health, parentDone, groupVars,
                   runVars, sigVars, sdVars, httpInShutdown, grpcSrvVars>>

HttpRequestEnd ==
    /\ httpConns > 0
    /\ httpConns' = httpConns - 1
    /\ UNCHANGED <<confVars, probeVars, appVars, routes, health, parentDone, groupVars,
                   runVars, sigVars, sdVars, httpInShutdown, grpcSrvVars>>

\* ------------------------------------------------------------------ Next
Run ==
    \/ RunBegin
    \/ StartGRPCServer
    \/ RunRegisterReadiness
    \/ RunStartHTTP
    \/ HandleGracefulShutdown
    \/ RunWait

GrpcTask ==
    \/ GrpcListen
    \/ GrpcServe
    \/ GrpcAcceptFail
    \/ GrpcServeQuit
    \/ GrpcServeReturn

HttpTask ==
    \/ HttpListenAndServe
    \/ HttpAcceptFail
    \/ HttpServeClosed

WatcherTask ==
    \/ WatcherNotify
    \/ WatcherSignal
    \/ WatcherCtxDone
    \/ WatcherReturn

Environment ==
    \/ OSSignal
    \/ CancelParent
    \/ GrpcCallBegin
    \/ GrpcCallEnd
    \/ HttpRequestBegin
    \/ HttpRequestEnd
    \/ \E c \in Callers : DeadlineElapse(c)
    \/ \E c \in Callers : ExternalShutdown(c)

Next ==
    \/ NewApp
    \/ Run
    \/ GrpcTask
    \/ HttpTask
    \/ WatcherTask
    \/ \E c \in Callers : Shutdown(c)
    \/ Environment

Spec == Init /\ [][Next]_vars

\* The goroutines are scheduled and time passes: Run, the tasks and every
\* Shutdown keep taking their steps, and a started deadline elapses.  What
\* the environment does (signals, cancellation, requests ending, outside
\* callers) is not forced, and neither is a failure of a serving accept
\* loop: Serve and ListenAndServe may block for ever, and Run with them in
\* g.Wait.
Fairness ==
    /\ WF_vars(NewApp)
    /\ WF_vars(Run)
    /\ WF_vars(GrpcListen \/ GrpcServe \/ GrpcServeQuit \/ GrpcServeReturn)
    /\ WF_vars(HttpListenAndServe \/ HttpServeClosed)
    /\ WF_vars(WatcherTask)
    /\ \A c \in Callers : WF_vars(Shutdown(c))
    /\ \A c \in Callers : WF_vars(DeadlineElapse(c))

FairSpec == Spec /\ Fairness

\* The lifecycle with the watcher as the only caller of Shutdown, under the
\* same scheduling.
WatcherNext ==
    \/ NewApp
    \/ Run
    \/ GrpcTask
    \/ HttpTask
    \/ WatcherTask
    \/ Shutdown(Watcher)
    \/ OSSignal
    \/ CancelParent
    \/ GrpcCallBegin
    \/ GrpcCallEnd
    \/ HttpRequestBegin
    \/ HttpRequestEnd
    \/ DeadlineElapse(Watcher)

WatcherSpec == Init /\ [][WatcherNext]_vars /\ Fairness

\* NewApp over every option list, and Run up to the launch of its tasks.
OptInit ==
    /\ Start(OptionLists)
    /\ service = [http |-> TRUE, ready |-> FALSE]
    /\ parentDone = FALSE

OptNext ==
    \/ NewApp
    \/ RunBegin
    \/ StartGRPCServer
    \/ RunRegisterReadiness
    \/ RunStartHTTP
    \/ HandleGracefulShutdown

OptSpec == OptInit /\ [][OptNext]_vars

\* The request handlers over every input.
HandlerInit ==
    /\ Start({<< >>})
    /\ service = [http |-> TRUE, ready |-> FALSE]
    /\ parentDone = FALSE

HandlerNext ==
    \/ \E checks \in CheckLists : ReadyzRequest(checks)
    \/ \E transport \in Transports :
          \E outcome \in IF transport = "http" THEN HTTPOutcomes
                                                  ELSE HandlerOutcomes :
              ServeRequest(transport, outcome)

HandlerSpec == HandlerInit /\ [][HandlerNext]_vars

\* ---------------------------------------------------------------- claims

\* Caller c's Shutdown has executed its first statement (line 217).
SdBegun(c) == sdPc[c] \notin {"idle", "call"}

\* Caller c's Shutdown has called httpServer.Shutdown / has called
\* GracefulStop (in its goroutine) or Stop on the gRPC server.
SdDrainedHTTP(c) == httpServer /\ sdPc[c] \notin {"idle", "call", "http"}
SdStoppedGRPC(c) ==
    \/ gsPc[c] \in {"draining", "done"}
    \/ sdPc[c] \in {"stopping", "returned"}

\* Executions of the stop/drain sequence so far.
SequenceRuns == Cardinality({c \in Callers : SdBegun(c)})

\* Run has returned from g.Wait (line 153), not from line 136.
RunJoined == runPc = "returned" /\ regHTTP # "err"

\* The errors of the tasks whose listener bind or accept loop failed on
\* its own.
OwnFailures == {ErrGRPCListen, ErrGRPCServe, ErrHTTPServe}
ServerFailed == \E i \in 1..Len(retLog) : retLog[i][2] \in OwnFailures

\* C1: when Shutdown is invoked twice (by the watcher and by an external
\* caller) the stop/drain sequence (NOT_SERVING, HTTP Shutdown, gRPC
\* GracefulStop/Stop) is performed exactly once in total.
C1_SequenceOnce ==
    /\ SequenceRuns <= 1
    /\ Cardinality({c \in Callers : SdDrainedHTTP(c)}) <= 1
    /\ Cardinality({c \in Callers : SdStoppedGRPC(c)}) <= 1

\* C2: within one Run the watcher invokes the shutdown sequence exactly
\* once, whichever of signal and context cancellation come and in whatever
\* order: once it has woken, no later trigger makes it call Shutdown again.
C2_WatcherOnce ==
    /\ watcherCalls <= 1
    /\ task["watcher"] \in {"shutdown", "returned"} <=> watcherCalls = 1
    /\ watcherCalls = 1 => sdPc[Watcher] # "idle"

\* C2 witness: the watcher has returned, a signal is pending in sigCh and
\* the caller's context is cancelled; Shutdown was called once.
C2_Witness ==
    /\ task["watcher"] = "returned"
    /\ sigCh = 1
    /\ parentDone
    /\ watcherCalls = 1

\* C3: once a server task has returned an error, the shared context is
\* cancelled, the shutdown sequence runs, every task returns and Run
\* returns; stated at Run's return: Run does not return after a server
\* task's failure without the shutdown sequence having run and every task
\* having returned.
C3_FailFast ==
    (runPc = "returned" /\ ServerFailed) =>
        /\ groupCancel
        /\ sdPc[Watcher] = "returned"
        /\ AllReturned

\* C4: the result Run returns from g.Wait is the first non-nil error that a
\* task returned, and nil when every task returned nil.
C4_FirstError ==
    RunJoined =>
        runResult = IF retLog = << >> THEN Nil ELSE retLog[1][2]

\* C4 witness: Run returned from g.Wait after two tasks returned different
\* errors; the result is the earlier one.
C4_Witness ==
    /\ RunJoined
    /\ Len(retLog) = 2
    /\ retLog[1][2] # retLog[2][2]
    /\ runResult = retLog[1][2]

\* C5: when shutdown is triggered by a signal or by the cancellation of the
\* caller's context (nobody calls Shutdown from outside) and no listener
\* bind or accept loop fails on its own, Run returns nil.
C5_CleanStop ==
    (/\ RunJoined
     /\ ~ServerFailed
     /\ \A c \in Callers \ {Watcher} : sdPc[c] = "idle") =>
        runResult = Nil

\* C6: when RegisterHTTP returns an error, Run has returned that error and
\* the HTTP task (ListenAndServe) is never launched.
C6_RegisterHTTPFails ==
    regHTTP = "err" =>
        /\ runPc = "returned"
        /\ runResult = ErrRegisterHTTP
        /\ task["http"] = "notLaunched"

\* C6 witness: RegisterHTTP failed on an App with the HTTP transport.
C6_Witness ==
    /\ regHTTP = "err"
    /\ httpServer
    /\ runResult = ErrRegisterHTTP

\* C7: when Run has returned, on every path, every task it launched has
\* returned.
C7_RunJoinsAllTasks == runPc = "returned" => AllReturned

\* C8: with a ReadinessProvider service and the HTTP transport, Run
\* replaces the /readyz route by one over the service's checks and startup
\* continues.
C8_ReadinessReplaced ==
    (service.ready /\ httpServer
     /\ runPc \notin {"idle", "startGRPC", "readiness"}) =>
        /\ runPc # "panicked"
        /\ routes["/readyz"] = ReadinessRoute(ServiceChecks)

\* C9: no server is being drained or stopped (HTTP Shutdown, gRPC
\* GracefulStop or Stop called) while the health flag reports SERVING.
C9_NotServingBeforeStop ==
    (httpInShutdown \/ grpcQuit \/ \E c \in Callers : gsPc[c] # "none") =>
        health = NOT_SERVING

\* C10: from the start of Run until a shutdown begins /healthz answers
\* 200 "OK"; once a shutdown has begun it answers 503 "Service Unavailable"
\* for the rest of the run.
C10_Healthz ==
    /\ (runPc # "idle" /\ \A c \in Callers : ~SdBegun(c)) =>
           HealthHandler(health) = <<200, "OK">>
    /\ (\E c \in Callers : SdBegun(c)) =>
           HealthHandler(health) = <<503, "Service Unavailable">>

\* C11 as stated: the gRPC graceful stop is initiated without waiting for
\* the HTTP drain, so a caller whose HTTP drain is in progress has started
\* its GracefulStop goroutine or can go on to start it now.
C11_Concurrent ==
    \A c \in Callers :
        sdPc[c] = "httpDrain" =>
            gsPc[c] # "none" \/ ENABLED SdHTTPShutdownReturn(c)

\* C11, amended: the two stops run one after the other against the single
\* deadline.  A caller starts its GracefulStop only after its
\* httpServer.Shutdown has returned, that is, when no HTTP request is in
\* flight any more or the deadline has already elapsed.
C11_Sequential ==
    \A c \in Callers :
        /\ sdPc[c] \in {"call", "http", "httpDrain"} => gsPc[c] = "none"
        /\ (httpServer /\ sdPc[c] = "select") =>
               /\ httpInShutdown
               /\ httpConns = 0 \/ sdElapsed[c]

\* C11 witness: the watcher's GracefulStop is draining a gRPC call after its
\* HTTP drain ran into the deadline with a request still in flight.
C11_Witness ==
    /\ sdPc[Watcher] = "select"
    /\ gsPc[Watcher] = "draining"
    /\ grpcConns > 0
    /\ httpInShutdown
    /\ httpConns > 0
    /\ sdElapsed[Watcher]

\* C12: once the watcher has triggered the shutdown, Shutdown returns, every
\* task returns and Run terminates, whether or not the HTTP drain and the
\* gRPC graceful stop complete on their own: requests may stay in flight
\* forever, the deadline elapses and the gRPC server is force-stopped.
C12_DeadlineEnforced ==
    (sdPc[Watcher] = "call") ~>
        (sdPc[Watcher] = "returned" /\ AllReturned /\ runPc = "returned")

\* C12 witness: the deadline has elapsed with an HTTP request and a gRPC
\* call still in flight; the HTTP drain returned its error and Shutdown has
\* called Stop.
C12_Witness ==
    /\ sdPc[Watcher] = "stopping"
    /\ sdElapsed[Watcher]
    /\ httpInShutdown
    /\ httpConns > 0
    /\ grpcConns > 0
    /\ gsPc[Watcher] = "draining"

\* The argument of the last option named fn in the list os, or def when the
\* list has none.
LastArg(os, fn, def) ==
    LET idx == {i \in 1..Len(os) : os[i][1] = fn}
    IN  IF idx = {}
        THEN def
        ELSE os[CHOOSE i \in idx : \A j \in idx : j <= i][2]

\* C13: when the gRPC port the option list results in is <= 0, NewApp fails
\* with its error, returns no App and creates no server, and nothing is
\* ever launched or listened on; when it is > 0, NewApp succeeds.
C13_InvalidPortRejected ==
    app # "none" =>
        LET port == LastArg(opts, "WithGRPCPort", DefaultGRPCPort)
        IN  /\ port <= 0 =>
                   /\ app = "failed"
                   /\ appErr = ErrInvalidPort
                   /\ ~grpcServer /\ ~httpServer /\ ~httpMux /\ ~mux
                   /\ routes = NoRoutes
                   /\ httpHandler = << >>
                   /\ runPc = "idle"
                   /\ \A t \in Tasks : task[t] = "notLaunched"
            /\ port > 0 =>
                   /\ app = "created"
                   /\ appErr = Nil
                   /\ grpcServer

\* C13 witness: NewApp has failed on a list that sets a valid gRPC port
\* first and port 0 after it, with HTTP enabled.
C13_Witness ==
    /\ app = "failed"
    /\ opts = <<<<"WithGRPCPort", 9001>>, <<"WithHTTPPort", HTTPPortOn>>,
                <<"WithGRPCPort", 0>>>>

\* C14 as stated: after a successful NewApp the HTTP server exists if and
\* only if the configured HTTP port is nonzero.
C14_HTTPIffNonzero ==
    app = "created" =>
        (httpServer <=> LastArg(opts, "WithHTTPPort", DefaultHTTPPort) # 0)

\* C14, amended: after a successful NewApp the gRPC server exists, and the
\* HTTP server with its router, /healthz, /readyz and the gateway mux exists
\* if and only if the configured HTTP port is greater than 0; with a port
\* of 0 or below there is no HTTP surface and Run launches no HTTP task.
C14_HTTPIffPositive ==
    app = "created" =>
        /\ grpcServer
        /\ httpServer <=> LastArg(opts, "WithHTTPPort", DefaultHTTPPort) > 0
        /\ httpServer =>
               /\ httpMux /\ mux
               /\ DOMAIN routes = {"/healthz", "/readyz", "/"}
               /\ routes["/healthz"].kind = "health"
               /\ routes["/readyz"].kind = "readiness"
               /\ routes["/"].kind = "gateway"
               /\ httpHandler # << >>
        /\ ~httpServer =>
               /\ ~httpMux /\ ~mux
               /\ routes = NoRoutes
               /\ httpHandler = << >>
               /\ task["http"] = "notLaunched"
               /\ ~httpInShutdown /\ httpConns = 0

\* C14 witness: Run has launched its tasks on an App built with HTTP port
\* -1: no HTTP server, no HTTP task.
C14_Witness ==
    /\ app = "created"
    /\ options.httpPort < 0
    /\ runPc = "wait"
    /\ task["watcher"] = "launched"
    /\ ~httpServer
    /\ task["http"] = "notLaunched"

\* The arguments of all options named fn in the list os, concatenated in
\* call order.
RECURSIVE ConcatArgs(_, _)
ConcatArgs(os, fn) ==
    IF os = << >>
    THEN << >>
    ELSE (IF Head(os)[1] = fn THEN Head(os)[2] ELSE << >>)
             \o ConcatArgs(Tail(os), fn)

\* C15: with middleware m1..mn registered in that order over one or several
\* WithHTTPMiddleware calls, a request to the App's HTTP handler passes the
\* before-logic of m1, ..., mn, then the mux, then the after-logic of
\* mn, ..., m1; with no middleware the handler is the mux itself.
C15_MiddlewareOrder ==
    (app = "created" /\ httpServer) =>
        LET ms == ConcatArgs(opts, "WithHTTPMiddleware")
            n == Len(ms)
        IN  /\ httpHandler =
                   [i \in 1..(2 * n + 1) |->
                       IF i <= n THEN <<"before", ms[i]>>
                       ELSE IF i = n + 1 THEN <<"serve", "httpMux">>
                       ELSE <<"after", ms[2 * n + 2 - i]>>]
            /\ n = 0 => httpHandler = MuxHandler

\* C15 witness: an HTTP handler wrapped by A from one WithHTTPMiddleware
\* call and B, C from a second one.
C15_Witness ==
    /\ app = "created"
    /\ httpServer
    /\ opts = <<<<"WithHTTPMiddleware", <<"A">>>>,
                <<"WithHTTPPort", HTTPPortOn>>,
                <<"WithHTTPMiddleware", <<"B", "C">>>>>>
    /\ Len(httpHandler) = 7

\* C16: a ReadinessHandler over N checks evaluates them in the supplied
\* order; when check k is the first to fail it answers 503 with check k's
\* message and evaluates no check after k; when all pass (N = 0 included)
\* it answers 200 "Ready".
C16_ReadinessOrder ==
    readyzResp # NoResponse =>
        LET cs == readyzResp.checks
            failing == {i \in 1..Len(cs) : cs[i] # Nil}
        IN  IF failing = {}
            THEN /\ readyzResp.status = 200
                 /\ readyzResp.body = "Ready"
                 /\ readyzResp.evaluated = Len(cs)
            ELSE LET k == CHOOSE i \in failing : \A j \in failing : i <= j
                 IN  /\ readyzResp.status = 503
                     /\ readyzResp.body = cs[k]
                     /\ readyzResp.evaluated = k

\* C16 witness: three checks, the second and the third failing with
\* different messages; the answer is 503 with the second check's message
\* after two evaluations.
C16_Witness ==
    /\ readyzResp.checks = <<Nil, "db down", "cache down">>
    /\ readyzResp.status = 503
    /\ readyzResp.body = "db down"
    /\ readyzResp.evaluated = 2

\* C17: the Options NewApp assembles are the defaults (gRPC port 9000, HTTP
\* disabled, reflection on, shutdown timeout 10 s) with the options applied
\* in call order: each scalar field holds the argument of the last option
\* for it, each list field the concatenation in call order of all lists
\* supplied for it, and no field is touched by another field's option.
C17_ConfigurationAssembly ==
    /\ defaultOptions.grpcPort = DefaultGRPCPort
    /\ defaultOptions.httpPort = 0
    /\ defaultOptions.enableReflection
    /\ defaultOptions.shutdownTimeout = 10
    /\ app # "none" =>
           options =
               [grpcPort |-> LastArg(opts, "WithGRPCPort", DefaultGRPCPort),
                httpPort |-> LastArg(opts, "WithHTTPPort", 0),
                enableReflection |-> LastArg(opts, "WithReflection", TRUE),
                shutdownTimeout |-> LastArg(opts, "WithShutdownTimeout", 10),
                unaryInterceptors |-> ConcatArgs(opts, "WithUnaryInterceptors"),
                streamInterceptors |-> ConcatArgs(opts, "WithStreamInterceptors"),
                muxOptions |-> ConcatArgs(opts, "WithMuxOptions"),
                httpMiddleware |-> ConcatArgs(opts, "WithHTTPMiddleware"),
                logger |-> LastArg(opts, "WithLogger", "default")]

\* C17 witness: NewApp has assembled a list with two unary interceptor
\* lists around a shutdown timeout; the interceptors are concatenated in
\* call order and the timeout is the supplied one.
C17_Witness ==
    /\ app = "created"
    /\ opts = <<<<"WithUnaryInterceptors", <<"u2", "u3">>>>,
                <<"WithShutdownTimeout", 5>>,
                <<"WithUnaryInterceptors", <<"u1">>>>>>
    /\ options.unaryInterceptors = <<"u2", "u3", "u1">>
    /\ options.shutdownTimeout = 5

\* C18: when a handler panics behind the recovery wrapper of its transport
\* (gRPC unary, gRPC stream, HTTP), at whatever point of its work, the
\* panic does not escape and the caller receives an error answer, gRPC
\* Internal or HTTP 500, not success.
C18_PanicContained ==
    rpcReply.outcome \in {"panic", "panicAfterWrite"} =>
        /\ ~rpcReply.escaped
        /\ rpcReply.result =
               IF rpcReply.transport = "http" THEN "500" ELSE "Internal"

\* Position of the startup step e in startLog from position i on, 0 when
\* it was not taken.
RECURSIVE StepFrom(_, _)
StepFrom(e, i) ==
    IF i > Len(startLog)
    THEN 0
    ELSE IF startLog[i] = e THEN i ELSE StepFrom(e, i + 1)

StepAt(e) == StepFrom(e, 1)

\* C19: Run sets the health flag to SERVING before any other startup step;
\* the gRPC task is launched only after RegisterGRPC has returned; when the
\* service provides RegisterHTTP the HTTP task is launched only after it
\* has returned without error; the watcher is launched only after the gRPC
\* task and, with an HTTP server, the HTTP task have been launched.
C19_StartupOrder ==
    LET regGRPC == StepAt("RegisterGRPC")
        goGRPC == StepAt("go grpc")
        regHTTPAt == StepAt("RegisterHTTP")
        goHTTP == StepAt("go http")
        goWatcher == StepAt("go watcher")
    IN  /\ runPc # "idle" => startLog[1] = "SetServingStatus"
        /\ task["grpc"] # "notLaunched" =>
               /\ 0 < regGRPC
               /\ regGRPC < goGRPC
        /\ task["http"] # "notLaunched" =>
               /\ goHTTP > 0
               /\ service.http =>
                      /\ 0 < regHTTPAt
                      /\ regHTTPAt < goHTTP
                      /\ regHTTP = "ok"
        /\ task["watcher"] # "notLaunched" =>
               /\ 0 < goGRPC
               /\ goGRPC < goWatcher
               /\ httpServer =>
                      /\ 0 < goHTTP
                      /\ goHTTP < goWatcher

\* C19 witness: a Run with an HTTPProvider service has launched all three
\* tasks.
C19_Witness ==
    /\ service.http
    /\ task["watcher"] # "notLaunched"
    /\ startLog = <<"SetServingStatus", "RegisterGRPC", "go grpc",
                    "RegisterHTTP", "go http", "go watcher">>

\* C20 as stated: Stop is called only if the deadline elapsed before the
\* graceful stop completed; a caller whose GracefulStop returned while its
\* deadline had not elapsed does not call Stop.
C20_NoStopAfterGracefulInTime ==
    \A c \in Callers : sdPc[c] = "stopping" => ~gsInTime[c]

\* C20, amended: Stop is called only once the deadline has elapsed, whether
\* or not the graceful stop has completed by then.  (When the graceful stop
\* has completed and the deadline has elapsed as well, the select may take
\* either branch.)
C20_StopOnlyAfterDeadline ==
    \A c \in Callers :
        sdPc[c] = "stopping" => sdElapsed[c]

\* C20 witness: the watcher's Shutdown has called Stop after its deadline
\* elapsed, with its GracefulStop already returned.
C20_Witness ==
    /\ sdPc[Watcher] = "stopping"
    /\ sdElapsed[Watcher]
    /\ gsPc[Watcher] = "done"

\* C21: with an HTTP server and a service that does not provide
\* RegisterHTTP, Run does not fail: it goes on to launch the HTTP task
\* without calling RegisterHTTP, the routes are those of NewApp, and Run
\* returns only after that task, like the others, has returned.
C21_NoProviderStillServes ==
    (app = "created" /\ httpServer /\ mux /\ ~service.http) =>
        /\ runPc # "panicked"
        /\ regHTTP = "none"
        /\ runPc \in {"watcher", "wait", "returned"} =>
               /\ task["http"] # "notLaunched"
               /\ DOMAIN routes = {"/healthz", "/readyz", "/"}
        /\ runPc = "returned" => task["http"] = "returned"

\* C22: whenever Run has returned, with nil or with an error, the shutdown
\* sequence has been executed: the health flag is NOT_SERVING and the gRPC
\* server has been asked to stop.
C22_ShutdownBeforeReturn ==
    runPc = "returned" =>
        /\ health = NOT_SERVING
        /\ grpcQuit
        /\ \E c \in Callers : SdBegun(c)

=============================================================================
